---- MODULE Spec2Model ----
(***************************************************************************)
(* Model of the MDS / ScoreEngine decision core:                           *)
(*   backend/score_engine.py   decide_exit_mds, decide_entry_mds and the  *)
(*                             stateful ScoreMdsRunner                    *)
(*                                                                         *)
(* Floats are modelled as integers counting tenths: 10.0 is 100, -0.1 is   *)
(* -1.  Every threshold of the source is kept, multiplied by ten.          *)
(***************************************************************************)
EXTENDS Integers, Sequences, FiniteSets, TLC

VARIABLES
  last_direction,   \* ScoreMdsRunner._last_direction (Null when None)
  confirm_count,    \* ScoreMdsRunner._confirm_count
  call,             \* the most recent runner operation and its arguments
  ret,              \* what that operation returned (or that it raised)
  streak,           \* history: length of the current run of qualifying
                    \* same-direction decide_entry calls
  streakDir,        \* history: the direction of that run
  freshN,           \* history: calls since construction/reset, -1 once the
                    \* sequence is no longer uniform
  freshK,           \* history: the confirm_needed of that uniform sequence
  armedK,           \* history: confirm_needed of the latest call if it
                    \* approved entry, else -1
  armedDir,         \* history: direction of the latest call if it approved
  entered,          \* history: a call approved entry since the last
                    \* reset() / on_entry_attempted()
  pure,             \* one evaluation of a pure decision function
  last_exit_candle_time,  \* bot.last_exit_candle_time (unset when None)
  candle,           \* the most recent on_closed_candle event and its result
  exitedAt          \* history: candle time of the latest event whose exit
                    \* execution reported an exit

vars == << last_direction, confirm_count, call, ret, streak, streakDir,
           freshN, freshK, armedK, armedDir, entered, pure,
           last_exit_candle_time, candle, exitedAt >>

runnerVars == << last_direction, confirm_count, call, ret, streak, streakDir,
                 freshN, freshK, armedK, armedDir, entered >>

runtimeVars == << last_exit_candle_time, candle, exitedAt >>

(***************************************************************************)
(* Bounds of the model.                                                    *)
(***************************************************************************)
MaxCount == 4       \* confirm_count is explored up to this value
MaxK == 3           \* confirm_needed is drawn from 0..MaxK
MaxTime == 4        \* candle times are drawn from 0..MaxTime

(***************************************************************************)
(* Thresholds of the source, in tenths.                                    *)
(***************************************************************************)
ExitNeutralScore == 60        \* abs(score) <= 6.0
ExitReversalScore == 100      \* score <= -10.0 / score >= 10.0
ExitReversalSlow == 10        \* slow_mom <= -1.0 / slow_mom >= 1.0
ExitNeutralSlow == 10         \* abs(slow_mom) <= 1.0
ExitMomentumSlope == 20       \* slope <= -2.0 / slope >= 2.0
ExitMomentumScore == 120      \* score < 12.0 / score > -12.0
EntryScoreMin == 100          \* abs(score) < 10.0
EntrySlopeMin == 10           \* abs(slope) < 1.0
RunnerScoreMin == 100         \* abs(float(score or 0.0)) < 10.0
RunnerSlopeMin == 10          \* abs(float(slope or 0.0)) < 1.0

(***************************************************************************)
(* Python values that reach the runner.  A numeric argument is None, a     *)
(* number, or a non-empty non-numeric string such as "abc".  A string      *)
(* argument is a string or None (Null).                                    *)
(***************************************************************************)
Null == "<None>"
PyNone == [t |-> "none", v |-> 0]
PyStr == [t |-> "str", v |-> 0]
PyNum(n) == [t |-> "num", v |-> n]

\* Python truthiness: None and 0 are falsy, a non-empty string is truthy.
Truthy(x) == (x.t = "num" /\ x.v # 0) \/ x.t = "str"

\* x or d
OrElse(x, d) == IF Truthy(x) THEN x ELSE d

\* str(s or d) for a string-or-None argument
StrOr(s, d) == IF s = Null \/ s = "" THEN d ELSE s

\* float(x) / int(x) succeed on a number and raise ValueError on "abc".
CanFloat(x) == x.t = "num"
CanInt(x) == x.t = "num"

Abs(x) == IF x < 0 THEN -x ELSE x

(***************************************************************************)
(* decide_exit_mds                                                         *)
(***************************************************************************)
ReasonReversal == "MDS Reversal (slow confirm)"
ReasonNeutral == "MDS Neutral (slow confirm)"
ReasonMomentum == "MDS Momentum Loss (slow confirm)"

ExitDecision(should_exit, reason) ==
  [should_exit |-> should_exit, reason |-> reason]

\* Variant: every band tried in turn with its full condition, so a band
\* whose slow confirmation fails falls through to the next band.
decide_exit_mds_flat(position_type, score, slope, slow_mom) ==
  LET ce == position_type = "CE"
      rev == IF ce THEN score <= -ExitReversalScore /\ slow_mom <= -ExitReversalSlow
                   ELSE score >= ExitReversalScore /\ slow_mom >= ExitReversalSlow
      neu == Abs(score) <= ExitNeutralScore /\ Abs(slow_mom) <= ExitNeutralSlow
      mom == IF ce THEN slope <= -ExitMomentumSlope /\ score < ExitMomentumScore
                        /\ slow_mom <= 0
                   ELSE slope >= ExitMomentumSlope /\ score > -ExitMomentumScore
                        /\ slow_mom >= 0
  IN  IF position_type \notin {"CE", "PE"} THEN ExitDecision(FALSE, "")
      ELSE IF rev THEN ExitDecision(TRUE, ReasonReversal)
      ELSE IF neu THEN ExitDecision(TRUE, ReasonNeutral)
      ELSE IF mom THEN ExitDecision(TRUE, ReasonMomentum)
      ELSE ExitDecision(FALSE, "")

\* Variant: the momentum-loss branch placed before the neutral branch.
decide_exit_mds_momentum_first(position_type, score, slope, slow_mom) ==
  LET ce == position_type = "CE"
      none == ExitDecision(FALSE, "")
      revGate == IF ce THEN score <= -ExitReversalScore
                       ELSE score >= ExitReversalScore
      momGate == IF ce THEN slope <= -ExitMomentumSlope /\ score < ExitMomentumScore
                       ELSE slope >= ExitMomentumSlope /\ score > -ExitMomentumScore
  IN  IF position_type \notin {"CE", "PE"} THEN none
      ELSE IF revGate THEN
        (IF (IF ce THEN slow_mom <= -ExitReversalSlow
                   ELSE slow_mom >= ExitReversalSlow)
           THEN ExitDecision(TRUE, ReasonReversal) ELSE none)
      ELSE IF momGate THEN
        (IF (IF ce THEN slow_mom <= 0 ELSE slow_mom >= 0)
           THEN ExitDecision(TRUE, ReasonMomentum) ELSE none)
      ELSE IF Abs(score) <= ExitNeutralScore THEN
        (IF Abs(slow_mom) <= ExitNeutralSlow
           THEN ExitDecision(TRUE, ReasonNeutral) ELSE none)
      ELSE none

\* Variant: the momentum-loss band without its slow-momentum confirmation.
decide_exit_mds_momentum_unconfirmed(position_type, score, slope, slow_mom) ==
  LET neutral == Abs(score) <= ExitNeutralScore
      none == ExitDecision(FALSE, "")
  IN  IF position_type = "CE" THEN
        IF score <= -ExitReversalScore THEN
          (IF slow_mom <= -ExitReversalSlow
             THEN ExitDecision(TRUE, ReasonReversal) ELSE none)
        ELSE IF neutral THEN
          (IF Abs(slow_mom) <= ExitNeutralSlow
             THEN ExitDecision(TRUE, ReasonNeutral) ELSE none)
        ELSE IF slope <= -ExitMomentumSlope /\ score < ExitMomentumScore THEN
          ExitDecision(TRUE, ReasonMomentum)
        ELSE none
      ELSE IF position_type = "PE" THEN
        IF score >= ExitReversalScore THEN
          (IF slow_mom >= ExitReversalSlow
             THEN ExitDecision(TRUE, ReasonReversal) ELSE none)
        ELSE IF neutral THEN
          (IF Abs(slow_mom) <= ExitNeutralSlow
             THEN ExitDecision(TRUE, ReasonNeutral) ELSE none)
        ELSE IF slope >= ExitMomentumSlope /\ score > -ExitMomentumScore THEN
          ExitDecision(TRUE, ReasonMomentum)
        ELSE none
      ELSE none

decide_exit_mds(position_type, score, slope, slow_mom) ==
  LET neutral == Abs(score) <= ExitNeutralScore
      none == ExitDecision(FALSE, "")
  IN  IF position_type = "CE" THEN
        IF score <= -ExitReversalScore THEN
          (IF slow_mom <= -ExitReversalSlow
             THEN ExitDecision(TRUE, ReasonReversal) ELSE none)
        ELSE IF neutral THEN
          (IF Abs(slow_mom) <= ExitNeutralSlow
             THEN ExitDecision(TRUE, ReasonNeutral) ELSE none)
        ELSE IF slope <= -ExitMomentumSlope /\ score < ExitMomentumScore THEN
          (IF slow_mom <= 0
             THEN ExitDecision(TRUE, ReasonMomentum) ELSE none)
        ELSE none
      ELSE IF position_type = "PE" THEN
        IF score >= ExitReversalScore THEN
          (IF slow_mom >= ExitReversalSlow
             THEN ExitDecision(TRUE, ReasonReversal) ELSE none)
        ELSE IF neutral THEN
          (IF Abs(slow_mom) <= ExitNeutralSlow
             THEN ExitDecision(TRUE, ReasonNeutral) ELSE none)
        ELSE IF slope >= ExitMomentumSlope /\ score > -ExitMomentumScore THEN
          (IF slow_mom >= 0
             THEN ExitDecision(TRUE, ReasonMomentum) ELSE none)
        ELSE none
      ELSE none

(***************************************************************************)
(* decide_entry_mds                                                        *)
(***************************************************************************)
EntryDecision(should_enter, option_type, reason) ==
  [should_enter |-> should_enter, option_type |-> option_type,
   reason |-> reason]

\* Variant: entry approved only when the counter equals confirm_needed.
decide_entry_mds_exact(ready, is_choppy, direction, score, slope, cc, confirm_needed) ==
  IF ~ready THEN EntryDecision(FALSE, "", "mds_not_ready")
  ELSE IF is_choppy THEN EntryDecision(FALSE, "", "mds_choppy")
  ELSE IF direction = "NONE" THEN EntryDecision(FALSE, "", "neutral_band")
  ELSE IF Abs(score) < EntryScoreMin
    THEN EntryDecision(FALSE, "", "score_too_low")
  ELSE IF Abs(slope) < EntrySlopeMin
    THEN EntryDecision(FALSE, "", "slope_too_low")
  ELSE IF cc # confirm_needed THEN EntryDecision(FALSE, "", "arming")
  ELSE EntryDecision(TRUE, IF direction = "CE" THEN "CE" ELSE "PE", "")

\* Variant: the choppiness gate placed before the readiness gate.
decide_entry_mds_choppy_first(ready, is_choppy, direction, score, slope, cc, confirm_needed) ==
  IF is_choppy THEN EntryDecision(FALSE, "", "mds_choppy")
  ELSE IF ~ready THEN EntryDecision(FALSE, "", "mds_not_ready")
  ELSE IF direction = "NONE" THEN EntryDecision(FALSE, "", "neutral_band")
  ELSE IF Abs(score) < EntryScoreMin
    THEN EntryDecision(FALSE, "", "score_too_low")
  ELSE IF Abs(slope) < EntrySlopeMin
    THEN EntryDecision(FALSE, "", "slope_too_low")
  ELSE IF cc < confirm_needed THEN EntryDecision(FALSE, "", "arming")
  ELSE EntryDecision(TRUE, IF direction = "CE" THEN "CE" ELSE "PE", "")

\* Variant: the option type of a positive decision is the direction itself.
decide_entry_mds_option_is_direction(ready, is_choppy, direction, score, slope, cc, confirm_needed) ==
  IF ~ready THEN EntryDecision(FALSE, "", "mds_not_ready")
  ELSE IF is_choppy THEN EntryDecision(FALSE, "", "mds_choppy")
  ELSE IF direction = "NONE" THEN EntryDecision(FALSE, "", "neutral_band")
  ELSE IF Abs(score) < EntryScoreMin
    THEN EntryDecision(FALSE, "", "score_too_low")
  ELSE IF Abs(slope) < EntrySlopeMin
    THEN EntryDecision(FALSE, "", "slope_too_low")
  ELSE IF cc < confirm_needed THEN EntryDecision(FALSE, "", "arming")
  ELSE EntryDecision(TRUE, direction, "")

\* Variant: no confirmation gate.
decide_entry_mds_unconfirmed(ready, is_choppy, direction, score, slope, cc, confirm_needed) ==
  IF ~ready THEN EntryDecision(FALSE, "", "mds_not_ready")
  ELSE IF is_choppy THEN EntryDecision(FALSE, "", "mds_choppy")
  ELSE IF direction = "NONE" THEN EntryDecision(FALSE, "", "neutral_band")
  ELSE IF Abs(score) < EntryScoreMin
    THEN EntryDecision(FALSE, "", "score_too_low")
  ELSE IF Abs(slope) < EntrySlopeMin
    THEN EntryDecision(FALSE, "", "slope_too_low")
  ELSE EntryDecision(TRUE, IF direction = "CE" THEN "CE" ELSE "PE", "")

decide_entry_mds(ready, is_choppy, direction, score, slope, cc, confirm_needed) ==
  IF ~ready THEN EntryDecision(FALSE, "", "mds_not_ready")
  ELSE IF is_choppy THEN EntryDecision(FALSE, "", "mds_choppy")
  ELSE IF direction = "NONE" THEN EntryDecision(FALSE, "", "neutral_band")
  ELSE IF Abs(score) < EntryScoreMin
    THEN EntryDecision(FALSE, "", "score_too_low")
  ELSE IF Abs(slope) < EntrySlopeMin
    THEN EntryDecision(FALSE, "", "slope_too_low")
  ELSE IF cc < confirm_needed THEN EntryDecision(FALSE, "", "arming")
  ELSE EntryDecision(TRUE, IF direction = "CE" THEN "CE" ELSE "PE", "")

(***************************************************************************)
(* Results of the runner: StrategyExitDecision, StrategyEntryDecision, or  *)
(* an exception leaving the method.                                        *)
(***************************************************************************)
NoRet == [kind |-> "none"]

ExitRet(should_exit, reason) ==
  [kind |-> "exit", raised |-> FALSE,
   should_exit |-> should_exit, reason |-> reason]

ExitRaised ==
  [kind |-> "exit", raised |-> TRUE, should_exit |-> FALSE, reason |-> ""]

EntryRet(should_enter, option_type, reason, cc, confirm_needed) ==
  [kind |-> "entry", raised |-> FALSE, should_enter |-> should_enter,
   option_type |-> option_type, reason |-> reason,
   confirm_count |-> cc, confirm_needed |-> confirm_needed]

EntryRaised ==
  [kind |-> "entry", raised |-> TRUE, should_enter |-> FALSE,
   option_type |-> "", reason |-> "",
   confirm_count |-> 0, confirm_needed |-> PyNum(0)]

(***************************************************************************)
(* ScoreMdsRunner.decide_exit: coerce, delegate, wrap.                     *)
(***************************************************************************)
\* Variant: a missing position_type coerced to "CE" instead of "".
RunnerDecideExitDefaultCE(position_type, score, slope, slow_mom) ==
  LET s == OrElse(score, PyNum(0))
      sl == OrElse(slope, PyNum(0))
      sm == OrElse(slow_mom, PyNum(0))
  IN  IF ~CanFloat(s) \/ ~CanFloat(sl) \/ ~CanFloat(sm) THEN ExitRaised
      ELSE LET d == decide_exit_mds(StrOr(position_type, "CE"), s.v, sl.v, sm.v)
           IN  ExitRet(d.should_exit, d.reason)

RunnerDecideExit(position_type, score, slope, slow_mom) ==
  LET s == OrElse(score, PyNum(0))
      sl == OrElse(slope, PyNum(0))
      sm == OrElse(slow_mom, PyNum(0))
  IN  IF ~CanFloat(s) \/ ~CanFloat(sl) \/ ~CanFloat(sm) THEN ExitRaised
      ELSE LET d == decide_exit_mds(StrOr(position_type, ""), s.v, sl.v, sm.v)
           IN  ExitRet(d.should_exit, d.reason)

(***************************************************************************)
(* ScoreMdsRunner.decide_entry as a function of the runner's state (ld,    *)
(* cc) and the arguments: the state after the call and what it returns.    *)
(***************************************************************************)
Outcome(ld, cc, r) == [last_direction |-> ld, confirm_count |-> cc, ret |-> r]

\* Variant: the confirmation counter restarts at 1 on every passing call.
ConfirmStepNoIncrement(ld, cc, direction) == 1

\* Variant: the confirmation counter keeps counting across a direction flip.
ConfirmStepNoFlipReset(ld, cc, direction) == cc + 1

\* Lines 171-175: the counter after a call that passed the gates.
ConfirmStep(ld, cc, direction) == IF ld = direction THEN cc + 1 ELSE 1

\* Variant: the runner's own score gate also rejects |score| = 10.0.
StepDecideEntryStrictScore(ld, cc, ready, is_choppy, direction_arg, score, slope, confirm_needed) ==
  LET direction == StrOr(direction_arg, "NONE")
      s == OrElse(score, PyNum(0))
      sl == OrElse(slope, PyNum(0))
      kn == OrElse(confirm_needed, PyNum(0))
      ncc == ConfirmStep(ld, cc, direction)
  IN  IF ~ready THEN
        Outcome(ld, cc, EntryRet(FALSE, "", "mds_not_ready", 0, PyNum(0)))
      ELSE IF is_choppy THEN
        Outcome(ld, cc, EntryRet(FALSE, "", "mds_choppy", 0, PyNum(0)))
      ELSE IF direction = "NONE" THEN
        Outcome(direction, 0,
                EntryRet(FALSE, "", "neutral_band", 0, confirm_needed))
      ELSE IF ~CanFloat(s) THEN Outcome(ld, cc, EntryRaised)
      ELSE IF Abs(s.v) <= RunnerScoreMin THEN
        Outcome(direction, 0,
                EntryRet(FALSE, "", "score_too_low", 0, confirm_needed))
      ELSE IF ~CanFloat(sl) THEN Outcome(ld, cc, EntryRaised)
      ELSE IF Abs(sl.v) < RunnerSlopeMin THEN
        Outcome(direction, 0,
                EntryRet(FALSE, "", "slope_too_low", 0, confirm_needed))
      ELSE IF ~CanInt(kn) THEN Outcome(direction, ncc, EntryRaised)
      ELSE LET d == decide_entry_mds(ready, is_choppy, direction,
                                     s.v, sl.v, ncc, kn.v)
           IN  Outcome(direction, ncc,
                       EntryRet(d.should_enter, d.option_type, d.reason,
                                ncc, PyNum(kn.v)))

StepDecideEntry(ld, cc, ready, is_choppy, direction_arg, score, slope, confirm_needed) ==
  LET direction == StrOr(direction_arg, "NONE")
      s == OrElse(score, PyNum(0))
      sl == OrElse(slope, PyNum(0))
      kn == OrElse(confirm_needed, PyNum(0))
      ncc == ConfirmStep(ld, cc, direction)
  IN  IF ~ready THEN
        Outcome(ld, cc, EntryRet(FALSE, "", "mds_not_ready", 0, PyNum(0)))
      ELSE IF is_choppy THEN
        Outcome(ld, cc, EntryRet(FALSE, "", "mds_choppy", 0, PyNum(0)))
      ELSE IF direction = "NONE" THEN
        Outcome(direction, 0,
                EntryRet(FALSE, "", "neutral_band", 0, confirm_needed))
      ELSE IF ~CanFloat(s) THEN Outcome(ld, cc, EntryRaised)
      ELSE IF Abs(s.v) < RunnerScoreMin THEN
        Outcome(direction, 0,
                EntryRet(FALSE, "", "score_too_low", 0, confirm_needed))
      ELSE IF ~CanFloat(sl) THEN Outcome(ld, cc, EntryRaised)
      ELSE IF Abs(sl.v) < RunnerSlopeMin THEN
        Outcome(direction, 0,
                EntryRet(FALSE, "", "slope_too_low", 0, confirm_needed))
      ELSE IF ~CanInt(kn) THEN Outcome(direction, ncc, EntryRaised)
      ELSE LET d == decide_entry_mds(ready, is_choppy, direction,
                                     s.v, sl.v, ncc, kn.v)
           IN  Outcome(direction, ncc,
                       EntryRet(d.should_enter, d.option_type, d.reason,
                                ncc, PyNum(kn.v)))

\* Variant: on_entry_attempted also forgets the direction.
StepOnEntryAttemptedClearsDirection(ld, cc) ==
  [last_direction |-> Null, confirm_count |-> 0]

\* ScoreMdsRunner.reset and on_entry_attempted, as functions of the state.
\* Variant: reset clears the counter and keeps the direction.
StepResetKeepsDirection(ld, cc) == [last_direction |-> ld, confirm_count |-> 0]

StepReset(ld, cc) == [last_direction |-> Null, confirm_count |-> 0]

StepOnEntryAttempted(ld, cc) == [last_direction |-> ld, confirm_count |-> 0]

(***************************************************************************)
(* What a decide_entry call was, read off its recorded arguments.          *)
(***************************************************************************)
ArgDirection(c) == StrOr(c.direction, "NONE")

ArgNumber(x) == OrElse(x, PyNum(0))

\* The call passes every gate that precedes the confirmation check.
Qualifying(c) ==
  /\ c.ready
  /\ ~c.is_choppy
  /\ ArgDirection(c) # "NONE"
  /\ ArgNumber(c.score).t = "num" /\ Abs(ArgNumber(c.score).v) >= 100
  /\ ArgNumber(c.slope).t = "num" /\ Abs(ArgNumber(c.slope).v) >= 10

\* The call is turned away before the confirmation check.
Disqualified(c) ==
  \/ ~c.ready
  \/ c.is_choppy
  \/ ArgDirection(c) = "NONE"
  \/ ArgNumber(c.score).t = "num" /\ Abs(ArgNumber(c.score).v) < 100
  \/ ArgNumber(c.slope).t = "num" /\ Abs(ArgNumber(c.slope).v) < 10

(***************************************************************************)
(* Arguments the runner is driven with.                                    *)
(***************************************************************************)
\* Well-typed calls that reach the direction, score and slope gates.
EntryArgsOpen ==
  [ready : {TRUE}, is_choppy : {FALSE},
   direction : {"NONE", "CE", "PE"},
   score : {PyNum(99), PyNum(-100)},
   slope : {PyNum(-9), PyNum(10)},
   confirm_needed : {PyNum(k) : k \in 1..MaxK}]

\* Well-typed calls stopped by the readiness or the choppiness gate.
EntryArgsBlocked ==
  { [ready |-> g[1], is_choppy |-> g[2], direction |-> d,
     score |-> PyNum(-100), slope |-> PyNum(10),
     confirm_needed |-> PyNum(MaxK)] :
    g \in {<<FALSE, FALSE>>, <<TRUE, TRUE>>, <<FALSE, TRUE>>},
    d \in {"NONE", "CE", "PE"} }

\* Calls with absent or non-numeric arguments.
EntryArgsLoose ==
  [ready : {TRUE}, is_choppy : {FALSE},
   direction : {Null, "XX"},
   score : {PyNone, PyStr, PyNum(100)},
   slope : {PyStr, PyNum(-10)},
   confirm_needed : {PyNone, PyStr, PyNum(0)}]

EntryArgs == EntryArgsOpen \cup EntryArgsBlocked \cup EntryArgsLoose

ExitArgs ==
  [position_type : {Null, "CE", "XX"},
   score : {PyNone, PyNum(50)},
   slope : {PyStr, PyNum(-20)},
   slow_mom : {PyNone, PyNum(-1)}]

(***************************************************************************)
(* backend/strategy_runtime.py: ScoreMdsRuntime.on_closed_candle.  Candle  *)
(* times and candle_interval_seconds are integers in one time unit; a      *)
(* datetime attribute is either unset (None / absent) or a candle time.    *)
(***************************************************************************)
NoTime == [set |-> FALSE, t |-> 0]
At(t) == [set |-> TRUE, t |-> t]

\* Variant: the cooldown still active when a full interval has elapsed.
recent_exit_cooldown_inclusive(last, current_candle_time, candle_interval_seconds) ==
  IF ~last.set THEN FALSE
  ELSE (current_candle_time - last.t) <= candle_interval_seconds

\* StrategyRuntime._recent_exit_cooldown_active
recent_exit_cooldown_active(last, current_candle_time, candle_interval_seconds) ==
  IF ~last.set THEN FALSE
  ELSE (current_candle_time - last.t) < candle_interval_seconds

\* What awaiting bot.process_mds_on_close can end in: a truthy result, a
\* falsy result, an Exception, or a BaseException that is no Exception
\* (the cancellation of the awaiting task).
ProcessOutcomes == {"exited", "held", "error", "cancelled"}

\* ClosedCandleContext, as far as on_closed_candle reads it.
CandleContexts(from) ==
  [mds_snapshot : BOOLEAN, enforce_recent_exit_cooldown : BOOLEAN,
   current_candle_time : from..MaxTime,
   candle_interval_seconds : {1, 2},
   close : {PyNum(1), PyStr}]

Handled(last, invoked, outcome, result) ==
  [last_exit_candle_time |-> last, invoked |-> invoked,
   outcome |-> outcome, result |-> result]

\* Variant: the awaited call outside the try block.
StepOnClosedCandleNoTry(last, ctx, outcome) ==
  IF ~ctx.mds_snapshot THEN Handled(last, FALSE, "none", "false")
  ELSE IF /\ ctx.enforce_recent_exit_cooldown
          /\ recent_exit_cooldown_active(last, ctx.current_candle_time,
                                         ctx.candle_interval_seconds)
    THEN Handled(last, FALSE, "none", "false")
  ELSE IF ~CanFloat(ctx.close) THEN Handled(last, FALSE, "none", "false")
  ELSE IF outcome = "exited"
    THEN Handled(At(ctx.current_candle_time), TRUE, outcome, "true")
  ELSE IF outcome = "held" THEN Handled(last, TRUE, outcome, "false")
  ELSE Handled(last, TRUE, outcome, "propagated")

\* Variant: the candle time recorded after every completed execution.
StepOnClosedCandleAlwaysRecords(last, ctx, outcome) ==
  IF ~ctx.mds_snapshot THEN Handled(last, FALSE, "none", "false")
  ELSE IF /\ ctx.enforce_recent_exit_cooldown
          /\ recent_exit_cooldown_active(last, ctx.current_candle_time,
                                         ctx.candle_interval_seconds)
    THEN Handled(last, FALSE, "none", "false")
  ELSE IF ~CanFloat(ctx.close) THEN Handled(last, FALSE, "none", "false")
  ELSE IF outcome = "exited"
    THEN Handled(At(ctx.current_candle_time), TRUE, outcome, "true")
  ELSE IF outcome = "held"
    THEN Handled(At(ctx.current_candle_time), TRUE, outcome, "false")
  ELSE IF outcome = "error" THEN Handled(last, TRUE, outcome, "false")
  ELSE Handled(last, TRUE, outcome, "propagated")

\* ScoreMdsRuntime.on_closed_candle as a function of the bot's attribute, the
\* context and what the awaited call ends in: the attribute after the call,
\* whether the exit execution was invoked, and what the call returns
\* ("propagated": an exception leaves on_closed_candle).
StepOnClosedCandle(last, ctx, outcome) ==
  IF ~ctx.mds_snapshot THEN Handled(last, FALSE, "none", "false")
  ELSE IF /\ ctx.enforce_recent_exit_cooldown
          /\ recent_exit_cooldown_active(last, ctx.current_candle_time,
                                         ctx.candle_interval_seconds)
    THEN Handled(last, FALSE, "none", "false")
  ELSE IF ~CanFloat(ctx.close) THEN Handled(last, FALSE, "none", "false")
  ELSE IF outcome = "exited"
    THEN Handled(At(ctx.current_candle_time), TRUE, outcome, "true")
  ELSE IF outcome = "held" THEN Handled(last, TRUE, outcome, "false")
  ELSE IF outcome = "error" THEN Handled(last, TRUE, outcome, "false")
  ELSE Handled(last, TRUE, outcome, "propagated")

NoCandle == [seen |-> FALSE, current_candle_time |-> 0]

NoCall == [op |-> "none"]
PureIdle == [args |-> [fn |-> "none"], done |-> TRUE, out |-> NoRet]

(***************************************************************************)
(* The runner after construction (__init__).                               *)
(***************************************************************************)
Init ==
  /\ last_direction = Null
  /\ confirm_count = 0
  /\ call = NoCall
  /\ ret = NoRet
  /\ streak = 0
  /\ streakDir = Null
  /\ freshN = 0
  /\ freshK = 0
  /\ armedK = -1
  /\ armedDir = Null
  /\ entered = FALSE
  /\ pure = PureIdle
  /\ last_exit_candle_time = NoTime
  /\ candle = NoCandle
  /\ exitedAt = NoTime

\* What every operation records of the state it was called in.
Before ==
  [pre_dir |-> last_direction, pre_cc |-> confirm_count,
   prev_op |-> call.op, pre_armedK |-> armedK, pre_armedDir |-> armedDir,
   pre_entered |-> entered]

reset ==
  LET n == StepReset(last_direction, confirm_count)
  IN  /\ last_direction' = n.last_direction
      /\ confirm_count' = n.confirm_count
      /\ call' = [op |-> "reset", pre |-> Before]
      /\ ret' = NoRet
      /\ streak' = 0 /\ streakDir' = Null
      /\ freshN' = 0 /\ freshK' = 0
      /\ armedK' = -1 /\ armedDir' = Null
      /\ entered' = FALSE
      /\ UNCHANGED << pure, runtimeVars >>

on_entry_attempted ==
  LET n == StepOnEntryAttempted(last_direction, confirm_count)
  IN  /\ last_direction' = n.last_direction
      /\ confirm_count' = n.confirm_count
      /\ call' = [op |-> "on_entry_attempted", pre |-> Before]
      /\ ret' = NoRet
      /\ streak' = 0 /\ streakDir' = Null
      /\ freshN' = -1 /\ freshK' = 0
      /\ armedK' = -1 /\ armedDir' = Null
      /\ entered' = FALSE
      /\ UNCHANGED << pure, runtimeVars >>

\* Variant: decide_exit restarts the confirmation counter.
decide_exit_clears_count(a) ==
  /\ call' = [op |-> "decide_exit", pre |-> Before,
              position_type |-> a.position_type, score |-> a.score,
              slope |-> a.slope, slow_mom |-> a.slow_mom]
  /\ ret' = RunnerDecideExit(a.position_type, a.score, a.slope, a.slow_mom)
  /\ confirm_count' = 0
  /\ UNCHANGED << last_direction, streak, streakDir,
                  freshN, freshK, armedK, armedDir, entered, pure,
                  runtimeVars >>

decide_exit(a) ==
  /\ call' = [op |-> "decide_exit", pre |-> Before,
              position_type |-> a.position_type, score |-> a.score,
              slope |-> a.slope, slow_mom |-> a.slow_mom]
  /\ ret' = RunnerDecideExit(a.position_type, a.score, a.slope, a.slow_mom)
  /\ UNCHANGED << last_direction, confirm_count, streak, streakDir,
                  freshN, freshK, armedK, armedDir, entered, pure,
                  runtimeVars >>

decide_entry(a) ==
  LET n == StepDecideEntry(last_direction, confirm_count, a.ready,
                           a.is_choppy, a.direction, a.score, a.slope,
                           a.confirm_needed)
      q == Qualifying(a)
      d == ArgDirection(a)
      k == ArgNumber(a.confirm_needed)
      uniform ==
        /\ q
        /\ d \in {"CE", "PE"}
        /\ k.t = "num" /\ k.v >= 1
        /\ \/ freshN = 0
           \/ freshN >= 1 /\ d = streakDir /\ k.v = freshK
  IN  /\ n.confirm_count <= MaxCount
      /\ last_direction' = n.last_direction
      /\ confirm_count' = n.confirm_count
      /\ call' = [op |-> "decide_entry", pre |-> Before,
                  ready |-> a.ready, is_choppy |-> a.is_choppy,
                  direction |-> a.direction, score |-> a.score,
                  slope |-> a.slope, confirm_needed |-> a.confirm_needed]
      /\ ret' = n.ret
      /\ streak' = IF ~q THEN 0
                   ELSE IF streak > 0 /\ streakDir = d THEN streak + 1 ELSE 1
      /\ streakDir' = IF q THEN d ELSE Null
      /\ freshN' = IF uniform THEN freshN + 1 ELSE -1
      /\ freshK' = IF uniform THEN k.v ELSE 0
      /\ armedK' = IF n.ret.should_enter THEN k.v ELSE -1
      /\ armedDir' = IF n.ret.should_enter THEN d ELSE Null
      /\ entered' = (entered \/ n.ret.should_enter)
      /\ UNCHANGED << pure, runtimeVars >>

Next ==
  \/ reset
  \/ on_entry_attempted
  \/ \E a \in ExitArgs : decide_exit(a)
  \/ \E a \in EntryArgs : decide_entry(a)

Spec == Init /\ [][Next]_vars

(***************************************************************************)
(* The pure decision functions on their own: one evaluation per behaviour, *)
(* the arguments drawn from grids that sit on and next to every threshold. *)
(***************************************************************************)
PureScores ==
  {-120, -119, -100, -99, -61, -60, 0, 50, 60, 61, 99, 100, 119, 120}

PureSlopes == {-20, -19, -10, -9, 0, 9, 10, 19, 20}

PureSlows == {-11, -10, -9, -1, 0, 1, 9, 10, 11}

PureExitInputs ==
  [fn : {"decide_exit_mds"}, position_type : {"CE", "PE", "", "XX"},
   score : PureScores, slope : PureSlopes, slow_mom : PureSlows]

PureEntryInputs ==
  [fn : {"decide_entry_mds"}, ready : BOOLEAN, is_choppy : BOOLEAN,
   direction : {"NONE", "CE", "PE", "XX"},
   score : {-100, -99, 0, 99, 100}, slope : {-10, -9, 0, 9, 10},
   confirm_count : 0..MaxCount, confirm_needed : 0..MaxK]

InitPure ==
  /\ last_direction = Null
  /\ confirm_count = 0
  /\ call = NoCall
  /\ ret = NoRet
  /\ streak = 0
  /\ streakDir = Null
  /\ freshN = 0
  /\ freshK = 0
  /\ armedK = -1
  /\ armedDir = Null
  /\ entered = FALSE
  /\ \E a \in PureExitInputs \cup PureEntryInputs :
       pure = [args |-> a, done |-> FALSE, out |-> NoRet]
  /\ last_exit_candle_time = NoTime
  /\ candle = NoCandle
  /\ exitedAt = NoTime

eval_exit_mds ==
  /\ ~pure.done
  /\ pure.args.fn = "decide_exit_mds"
  /\ pure' = [pure EXCEPT !.done = TRUE,
                !.out = decide_exit_mds(pure.args.position_type,
                          pure.args.score, pure.args.slope,
                          pure.args.slow_mom)]
  /\ UNCHANGED << last_direction, confirm_count, call, ret, streak,
                  streakDir, freshN, freshK, armedK, armedDir, entered,
                  runtimeVars >>

eval_entry_mds ==
  /\ ~pure.done
  /\ pure.args.fn = "decide_entry_mds"
  /\ pure' = [pure EXCEPT !.done = TRUE,
                !.out = decide_entry_mds(pure.args.ready,
                          pure.args.is_choppy, pure.args.direction,
                          pure.args.score, pure.args.slope,
                          pure.args.confirm_count,
                          pure.args.confirm_needed)]
  /\ UNCHANGED << last_direction, confirm_count, call, ret, streak,
                  streakDir, freshN, freshK, armedK, armedDir, entered,
                  runtimeVars >>

NextPure == eval_exit_mds \/ eval_entry_mds

SpecPure == InitPure /\ [][NextPure]_vars

(***************************************************************************)
(* The runtime on its own: closed-candle events handled one after another, *)
(* candle times never going back.                                          *)
(***************************************************************************)
InitRuntime == Init

on_closed_candle(ctx, outcome) ==
  LET h == StepOnClosedCandle(last_exit_candle_time, ctx, outcome)
  IN  /\ last_exit_candle_time' = h.last_exit_candle_time
      /\ candle' = [seen |-> TRUE,
                    mds_snapshot |-> ctx.mds_snapshot,
                    enforce_recent_exit_cooldown |->
                      ctx.enforce_recent_exit_cooldown,
                    current_candle_time |-> ctx.current_candle_time,
                    candle_interval_seconds |-> ctx.candle_interval_seconds,
                    close |-> ctx.close,
                    pre_last |-> last_exit_candle_time,
                    pre_exitedAt |-> exitedAt,
                    invoked |-> h.invoked,
                    outcome |-> h.outcome,
                    result |-> h.result]
      /\ exitedAt' = IF h.invoked /\ h.outcome = "exited"
                       THEN At(ctx.current_candle_time) ELSE exitedAt
      /\ UNCHANGED << runnerVars, pure >>

NextRuntime ==
  \E ctx \in CandleContexts(candle.current_candle_time) :
    \E outcome \in ProcessOutcomes : on_closed_candle(ctx, outcome)

SpecRuntime == InitRuntime /\ [][NextRuntime]_vars

(***************************************************************************)
(* Claims.                                                                 *)
(***************************************************************************)
IsEntry == call.op = "decide_entry"

Returned == IsEntry /\ ~ret.raised

\* C1: a decide_entry call that is disqualified for any reason (not ready,
\* choppy, direction NONE, |score| < 10.0, |slope| < 1.0) leaves the runner
\* with confirm_count = 0 and last_direction = the call's normalized
\* direction.
C1_DisqualifiedResets ==
  (Returned /\ Disqualified(call)) =>
    (confirm_count = 0 /\ last_direction = ArgDirection(call))

\* C2: whenever decide_entry approves entry with confirm_needed = k >= 1,
\* the k most recent decide_entry calls were all qualifying calls with the
\* same direction, with no reset() or on_entry_attempted() between them.
C2_EnterOnlyAfterKInARow ==
  (Returned /\ ret.should_enter /\ ret.confirm_needed.v >= 1) =>
    streak >= ret.confirm_needed.v

(***************************************************************************)
(* The exit bands as the specification words them, thresholds in tenths.   *)
(***************************************************************************)
ExitEvaluated ==
  /\ pure.done
  /\ pure.args.fn = "decide_exit_mds"
  /\ pure.args.position_type \in {"CE", "PE"}

OnCE == pure.args.position_type = "CE"

\* The score/slope part of each band.
ReversalGate ==
  IF OnCE THEN pure.args.score <= -100 ELSE pure.args.score >= 100

NeutralGate == Abs(pure.args.score) <= 60

MomentumGate ==
  IF OnCE THEN pure.args.slope <= -20 /\ pure.args.score < 120
          ELSE pure.args.slope >= 20 /\ pure.args.score > -120

\* The slow-momentum part of each band.
ReversalSlow ==
  IF OnCE THEN pure.args.slow_mom <= -10 ELSE pure.args.slow_mom >= 10

NeutralSlow == Abs(pure.args.slow_mom) <= 10

MomentumSlow ==
  IF OnCE THEN pure.args.slow_mom <= 0 ELSE pure.args.slow_mom >= 0

ReversalBand == ReversalGate /\ ReversalSlow
NeutralBand == NeutralGate /\ NeutralSlow
MomentumBand == MomentumGate /\ MomentumSlow

\* C3 as stated: should_exit iff at least one full band condition holds,
\* the reason that of the first matching band (Reversal, Neutral, Momentum
\* loss).
C3_FirstFullBandWins ==
  ExitEvaluated =>
    pure.out =
      IF ReversalBand THEN ExitDecision(TRUE, ReasonReversal)
      ELSE IF NeutralBand THEN ExitDecision(TRUE, ReasonNeutral)
      ELSE IF MomentumBand THEN ExitDecision(TRUE, ReasonMomentum)
      ELSE ExitDecision(FALSE, "")

\* C3 as amended: one band is selected by its score/slope condition alone,
\* first match in the order Reversal, Neutral, Momentum loss; should_exit is
\* true iff a band is selected and that band's slow_mom condition holds,
\* with that band's reason; when it fails, no later band is tried.
C3_SelectedBandConfirms ==
  ExitEvaluated =>
    pure.out =
      IF ReversalGate
        THEN (IF ReversalSlow THEN ExitDecision(TRUE, ReasonReversal)
                              ELSE ExitDecision(FALSE, ""))
      ELSE IF NeutralGate
        THEN (IF NeutralSlow THEN ExitDecision(TRUE, ReasonNeutral)
                             ELSE ExitDecision(FALSE, ""))
      ELSE IF MomentumGate
        THEN (IF MomentumSlow THEN ExitDecision(TRUE, ReasonMomentum)
                              ELSE ExitDecision(FALSE, ""))
      ELSE ExitDecision(FALSE, "")

\* A band selected by its score gate whose slow confirmation fails, while
\* the full momentum-loss condition holds: no exit.
C3_Witness ==
  /\ ExitEvaluated
  /\ (ReversalGate /\ ~ReversalSlow) \/ (NeutralGate /\ ~NeutralSlow)
  /\ MomentumBand
  /\ ~pure.out.should_exit

\* The input of C4: CE, score = 5.0, slope = -2.0, slow_mom = -0.1.
C4_Input ==
  /\ pure.done
  /\ pure.args.fn = "decide_exit_mds"
  /\ pure.args.position_type = "CE"
  /\ pure.args.score = 50
  /\ pure.args.slope = -20
  /\ pure.args.slow_mom = -1

\* C4 as stated: for CE, score = 5.0, slope = -2.0, slow_mom = -0.1 the
\* decision is an exit with reason "MDS Momentum Loss (slow confirm)".
C4_ReportsMomentumLoss ==
  C4_Input => pure.out = ExitDecision(TRUE, "MDS Momentum Loss (slow confirm)")

\* C4 as amended: for CE, score = 5.0, slope = -2.0, slow_mom = -0.1 the
\* decision is an exit with reason "MDS Neutral (slow confirm)": the neutral
\* band is tried before the momentum-loss band.
C4_ReportsNeutral ==
  C4_Input => pure.out = ExitDecision(TRUE, "MDS Neutral (slow confirm)")

C4_Witness == C4_Input /\ pure.out.should_exit

\* C5: from a fresh or reset runner, n consecutive qualifying calls with the
\* same direction (CE or PE) and the same confirm_needed = k >= 1 return
\* confirm_count 1, 2, ..., n, approve exactly the calls numbered i >= k and
\* answer "arming" on the calls numbered i < k.
C5_CountsUpFromFresh ==
  (IsEntry /\ freshN >= 1) =>
    /\ ~ret.raised
    /\ ret.confirm_count = freshN
    /\ ret.should_enter = (freshN >= freshK)
    /\ (freshN < freshK) => ret.reason = "arming"

\* Three calls in with confirm_needed = 3: the third one approves.
C5_Witness ==
  /\ IsEntry
  /\ freshN = 3
  /\ freshK = 3
  /\ ret.should_enter
  /\ ret.confirm_count = 3

\* C6: a qualifying call whose direction differs from last_direction sets
\* last_direction to the new direction and confirm_count to exactly 1,
\* whatever the previous confirm_count was.
C6_FlipRestartsAtOne ==
  (IsEntry /\ Qualifying(call) /\ ArgDirection(call) # call.pre.pre_dir) =>
    /\ last_direction = ArgDirection(call)
    /\ confirm_count = 1
    /\ ~ret.raised => ret.confirm_count = 1

\* A flip from CE to PE with two confirmations already counted.
C6_Witness ==
  /\ Returned
  /\ Qualifying(call)
  /\ call.pre.pre_dir = "CE"
  /\ call.pre.pre_cc >= 2
  /\ ArgDirection(call) = "PE"
  /\ ret.confirm_count = 1

\* C7: on_entry_attempted() sets confirm_count to 0 and leaves last_direction
\* unchanged, so an immediately following qualifying call with the same
\* direction returns confirm_count = 1, and should_enter = false when
\* confirm_needed > 1.
C7_AttemptClearsCountOnly ==
  /\ (call.op = "on_entry_attempted") =>
       (confirm_count = 0 /\ last_direction = call.pre.pre_dir)
  /\ (/\ Returned
      /\ call.pre.prev_op = "on_entry_attempted"
      /\ Qualifying(call)
      /\ ArgDirection(call) = call.pre.pre_dir) =>
       /\ ret.confirm_count = 1
       /\ (ret.confirm_needed.v > 1) => ~ret.should_enter

\* The follow-up call after on_entry_attempted(), same direction,
\* confirm_needed > 1.
C7_Witness ==
  /\ Returned
  /\ call.pre.prev_op = "on_entry_attempted"
  /\ Qualifying(call)
  /\ ArgDirection(call) = call.pre.pre_dir
  /\ ret.confirm_needed.v > 1
  /\ ret.confirm_count = 1
  /\ ~ret.should_enter

C9_NeverRaises ==
  (call.op \in {"decide_exit", "decide_entry"}) => ~ret.raised

\* The gates of decide_entry_mds in the order the specification lists them:
\* whether each one fails, and the reason it answers with.
EntryGateFails ==
  << ~pure.args.ready,
     pure.args.is_choppy,
     pure.args.direction = "NONE",
     Abs(pure.args.score) < 100,
     Abs(pure.args.slope) < 10,
     pure.args.confirm_count < pure.args.confirm_needed >>

EntryGateReasons ==
  << "mds_not_ready", "mds_choppy", "neutral_band", "score_too_low",
     "slope_too_low", "arming" >>

FirstFailingGate ==
  LET failing == {i \in 1..6 : EntryGateFails[i]}
  IN  IF failing = {} THEN 0
      ELSE CHOOSE i \in failing : \A j \in failing : i <= j

EntryEvaluated == pure.done /\ pure.args.fn = "decide_entry_mds"

\* C10: decide_entry_mds answers with the reason of the first failing gate
\* in the order ready, is_choppy, direction, score, slope, confirm_count,
\* and approves entry with an empty reason when no gate fails.
C10_FirstFailingGateAnswers ==
  EntryEvaluated =>
    IF FirstFailingGate = 0
      THEN pure.out.should_enter /\ pure.out.reason = ""
      ELSE /\ ~pure.out.should_enter
           /\ pure.out.option_type = ""
           /\ pure.out.reason = EntryGateReasons[FirstFailingGate]

\* Not ready while every later gate fails too: the answer is mds_not_ready.
C10_Witness ==
  /\ EntryEvaluated
  /\ \A i \in 1..6 : EntryGateFails[i]
  /\ pure.out.reason = "mds_not_ready"

C12_ExitIsStateless ==
  (call.op = "decide_exit") =>
    /\ last_direction = call.pre.pre_dir
    /\ confirm_count = call.pre.pre_cc
    /\ ret = RunnerDecideExit(call.position_type, call.score,
                              call.slope, call.slow_mom)

\* An exit decided while the runner holds two confirmations.
C12_Witness ==
  /\ call.op = "decide_exit"
  /\ call.pre.pre_cc >= 2
  /\ confirm_count = call.pre.pre_cc
  /\ ~ret.raised
  /\ ret.should_exit


(***************************************************************************)
(* Claims about the closed-candle runtime.                                 *)
(***************************************************************************)
CandleHandled(c) == c.seen
ElapsedSinceExit(c) == c.current_candle_time - c.pre_exitedAt.t
CoolingDown(c) ==
  /\ c.pre_exitedAt.set
  /\ c.enforce_recent_exit_cooldown
  /\ ElapsedSinceExit(c) < c.candle_interval_seconds

\* C13: when the awaited exit execution raises an exception, on_closed_candle
\* returns false, lets no exception out and leaves bot.last_exit_candle_time
\* as it was before the event.
C13_FaultMeansNoExit ==
  (CandleHandled(candle) /\ candle.invoked /\ candle.outcome = "error") =>
    /\ candle.result = "false"
    /\ last_exit_candle_time = candle.pre_last

C13_Witness ==
  /\ CandleHandled(candle) /\ candle.invoked /\ candle.outcome = "error"
  /\ candle.pre_last.set
  /\ candle.result = "false"
  /\ last_exit_candle_time = candle.pre_last

\* C14: after an event at candle time t whose exit execution reported an exit,
\* last_exit_candle_time is t; a later event inside the cooldown (flag on,
\* t' - t < candle_interval_seconds) returns false without invoking the exit
\* execution; the execution is invoked only when no exit was reported yet, the
\* flag is off or a full interval has elapsed, and with a snapshot and a
\* numeric close it is then invoked.
C14_CooldownAfterExit ==
  /\ last_exit_candle_time = exitedAt
  /\ CandleHandled(candle) =>
       /\ (candle.invoked /\ candle.outcome = "exited") =>
            last_exit_candle_time = At(candle.current_candle_time)
       /\ CoolingDown(candle) =>
            ~candle.invoked /\ candle.result = "false"
       /\ candle.invoked => ~CoolingDown(candle)
       /\ ( /\ candle.mds_snapshot
            /\ CanFloat(candle.close)
            /\ ~CoolingDown(candle) ) => candle.invoked

C14_Witness ==
  /\ CandleHandled(candle)
  /\ candle.mds_snapshot /\ CanFloat(candle.close)
  /\ CoolingDown(candle)
  /\ ElapsedSinceExit(candle) > 0
  /\ ~candle.invoked /\ candle.result = "false"
  /\ last_exit_candle_time = candle.pre_exitedAt


\* C15: on CE and PE, inputs that satisfy none of the three bands' conditions
\* give should_exit = FALSE with reason ""; and every decision of
\* decide_exit_mds with should_exit = FALSE has an empty reason.
C15_OutsideBandsNoExit ==
  /\ (ExitEvaluated /\ ~ReversalBand /\ ~NeutralBand /\ ~MomentumBand) =>
       pure.out = ExitDecision(FALSE, "")
  /\ (pure.done /\ pure.args.fn = "decide_exit_mds"
        /\ ~pure.out.should_exit) => pure.out.reason = ""

C15_Witness ==
  /\ ExitEvaluated
  /\ MomentumGate /\ ~MomentumSlow
  /\ ~ReversalBand /\ ~NeutralBand
  /\ pure.out = ExitDecision(FALSE, "")


(***************************************************************************)
(* Claims about the runner, continued.                                     *)
(***************************************************************************)
IsExit == call.op = "decide_exit"

\* The position type decide_exit_mds receives from the runner.
ExitPositionType == StrOr(call.position_type, "")

\* The neutral band's condition on the coerced score and slow momentum.
ExitCallNeutral ==
  /\ Abs(OrElse(call.score, PyNum(0)).v) <= 60
  /\ Abs(OrElse(call.slow_mom, PyNum(0)).v) <= 10

\* C16: with a position type other than CE and PE, the empty string of a
\* missing position type included, decide_exit answers should_exit = FALSE
\* with an empty reason whatever the score, slope and slow momentum.
C16_UnknownPositionNoExit ==
  (IsExit /\ ~ret.raised /\ ExitPositionType \notin {"CE", "PE"}) =>
    /\ ~ret.should_exit
    /\ ret.reason = ""

C16_Witness ==
  /\ IsExit /\ ~ret.raised
  /\ call.position_type = Null
  /\ ExitCallNeutral
  /\ ~ret.should_exit /\ ret.reason = ""


\* C17: a negative entry decision carries option_type ""; a positive one
\* carries CE when the direction is CE and PE for any other direction, and an
\* empty reason.
C17_OptionTypeOnlyWhenEntering ==
  Returned =>
    /\ ~ret.should_enter => ret.option_type = ""
    /\ ret.should_enter =>
         /\ ret.option_type = (IF ArgDirection(call) = "CE" THEN "CE" ELSE "PE")
         /\ ret.reason = ""

C17_Witness ==
  /\ Returned
  /\ ret.should_enter
  /\ ArgDirection(call) \notin {"CE", "PE", "NONE"}
  /\ ret.option_type = "PE"
  /\ ret.reason = ""

\* The number a numeric argument is normalised to (float(x or 0.0),
\* int(x or 0)); 0 stands in where the normalisation has no value.
NormNumber(x) == IF ArgNumber(x).t = "num" THEN ArgNumber(x).v ELSE 0

\* decide_entry_mds on the call's normalised inputs and the runner's counter
\* after the call.
PureOnCall ==
  decide_entry_mds(call.ready, call.is_choppy, ArgDirection(call),
                   NormNumber(call.score), NormNumber(call.slope),
                   confirm_count, NormNumber(call.confirm_needed))

\* C18: what decide_entry returns as (should_enter, option_type, reason) is
\* what decide_entry_mds returns for the same normalised inputs and the
\* runner's confirm_count after the call, on every return path.
C18_RunnerAgreesWithPure ==
  Returned =>
    EntryDecision(ret.should_enter, ret.option_type, ret.reason) = PureOnCall

C18_Witness ==
  /\ Returned
  /\ call.ready /\ ~call.is_choppy /\ ArgDirection(call) # "NONE"
  /\ Abs(NormNumber(call.score)) = 100
  /\ ret.should_enter
  /\ EntryDecision(ret.should_enter, ret.option_type, ret.reason) = PureOnCall

\* C19: reset leaves last_direction unset and confirm_count 0, and the
\* decide_entry call that follows it does what it does on a newly constructed
\* runner: when qualifying, the counter becomes 1 and is returned as 1.
C19_ResetIsFresh ==
  /\ (call.op = "reset") => (last_direction = Null /\ confirm_count = 0)
  /\ (IsEntry /\ call.pre.prev_op = "reset") =>
       /\ Outcome(last_direction, confirm_count, ret) =
            StepDecideEntry(Null, 0, call.ready, call.is_choppy,
                            call.direction, call.score, call.slope,
                            call.confirm_needed)
       /\ Qualifying(call) =>
            /\ confirm_count = 1
            /\ ~ret.raised => ret.confirm_count = 1

C19_Witness ==
  /\ call.op = "reset"
  /\ call.pre.pre_cc >= 2
  /\ call.pre.pre_dir \in {"CE", "PE"}
  /\ last_direction = Null
  /\ confirm_count = 0

\* C20: on every return path of decide_entry the returned confirm_count is
\* the runner's confirm_count after the call.
C20_ReturnedCountIsState ==
  Returned => ret.confirm_count = confirm_count


\* confirm_needed of the call is missing, or a number not above 1.
NeedsAtMostOne(c) ==
  \/ c.confirm_needed = PyNone
  \/ c.confirm_needed.t = "num" /\ c.confirm_needed.v <= 1

\* C21: when decide_entry returns should_enter = TRUE the runner holds
\* confirm_count >= 1, confirm_count >= confirm_needed (a missing one counted
\* as 0) and last_direction = the call's direction; and a qualifying call on
\* a counter of 0 (the first one after a reset) with confirm_needed <= 1 or
\* missing returns should_enter = TRUE.
C21_EnteredMeansConfirmed ==
  /\ (Returned /\ ret.should_enter) =>
       /\ confirm_count >= 1
       /\ confirm_count >= NormNumber(call.confirm_needed)
       /\ last_direction = call.direction
  /\ (IsEntry /\ call.pre.pre_cc = 0 /\ Qualifying(call)
        /\ NeedsAtMostOne(call)) =>
       /\ ~ret.raised
       /\ ret.should_enter

C21_Witness ==
  /\ Returned /\ ret.should_enter
  /\ NormNumber(call.confirm_needed) >= 2
  /\ confirm_count >= NormNumber(call.confirm_needed)
  /\ last_direction = call.direction

\* The consequence of C21 right after a reset, with confirm_needed missing.
C21_AfterResetCase ==
  /\ Returned /\ ret.should_enter
  /\ call.pre.prev_op = "reset"
  /\ call.confirm_needed = PyNone
  /\ confirm_count = 1


\* The cooldown test of the event, on the attribute the bot held before it.
CooldownBlocks(c) ==
  /\ c.enforce_recent_exit_cooldown
  /\ c.pre_last.set
  /\ c.current_candle_time - c.pre_last.t < c.candle_interval_seconds

\* C22: on_closed_candle changes last_exit_candle_time only when the exit
\* execution returned a truthy result, and then to the event's candle time,
\* returning true; with no snapshot, an active cooldown, an execution that
\* reports no exit or one that raises an exception, the attribute keeps its
\* value and the call returns false.
C22_WritesOnlyOnExit ==
  CandleHandled(candle) =>
    /\ (last_exit_candle_time # candle.pre_last) =>
         (candle.invoked /\ candle.outcome = "exited")
    /\ (candle.invoked /\ candle.outcome = "exited") =>
         /\ last_exit_candle_time = At(candle.current_candle_time)
         /\ candle.result = "true"
    /\ ( \/ ~candle.mds_snapshot
         \/ CooldownBlocks(candle)
         \/ candle.outcome \in {"held", "error"} ) =>
         /\ last_exit_candle_time = candle.pre_last
         /\ candle.result = "false"

C22_Witness ==
  /\ CandleHandled(candle)
  /\ candle.invoked /\ candle.outcome = "held"
  /\ candle.pre_last.set
  /\ candle.pre_last.t < candle.current_candle_time
  /\ last_exit_candle_time = candle.pre_last
  /\ candle.result = "false"

====
